---- MODULE Spec2Model ----
(***************************************************************************)
(* Model of the air-quality ETL pipeline (etl/extract.py, etl/transform.py, *)
(* etl/load.py, etl/flow.py).                                               *)
(*                                                                          *)
(* Python values are modelled as follows.  JSON scalars are their literal   *)
(* text ("55", "21", "null"); Python None / JSON null / NaN is Null.  A     *)
(* dict is a function from key strings to values, possibly with keys       *)
(* absent.  A pandas DataFrame is DF(rows), rows being a sequence of        *)
(* records; None (no DataFrame) is PyNone.  A function call returns a       *)
(* record [val, exc, out]: the value returned, the name of the exception    *)
(* that escaped ("" when none) and the messages printed.                    *)
(***************************************************************************)
EXTENDS Integers, Sequences, FiniteSets, TLC

VARIABLES table,   \* rows of the SQL table calidad_aire, in insertion order
          files,   \* the data directories: file name |-> [rows, at]
          clock,   \* wall clock, in ticks of 1/TicksPerSec second
          df,      \* the DataFrame the caller holds
          arg,     \* argument of the most recent call
          last     \* result of the most recent call

vars == <<table, files, clock, df, arg, last>>

----------------------------------------------------------------------------
(* Bounds *)

MaxLen      == 3   \* longest batch given to limpiar_y_validar
MaxMissing  == 2   \* most keys removed from a payload
MaxRows     == 2   \* most rows held by the table
MaxClock    == 2   \* last clock tick
MaxBatch    == 2   \* longest batch given directly to the load functions

TicksPerSec == 2   \* clock ticks per second

----------------------------------------------------------------------------
(* Python values *)

Null   == "null"
PyNone == [t |-> "None", rows |-> <<>>]
DF(rows) == [t |-> "df", rows |-> rows]

Return(v, printed) == [val |-> v, exc |-> "", out |-> printed]
Raise(e, printed)  == [val |-> PyNone, exc |-> e, out |-> printed]

NoEnv  == [db |-> "", fs |-> "", pyarrow |-> "", fastparquet |-> ""]
NoCall == [op |-> "", val |-> PyNone, exc |-> "", out |-> <<>>, env |-> NoEnv]
Called(op, r, env) ==
    [op |-> op, val |-> r.val, exc |-> r.exc, out |-> r.out, env |-> env]

PyStr(s)  == [t |-> "str", v |-> s]
PyDict(d) == [t |-> "dict", v |-> d]
NoArg     == [t |-> "none", v |-> ""]

Restrict(f, K) == [k \in (DOMAIN f) \ K |-> f[k]]

----------------------------------------------------------------------------
(* transform.py : transformar_datos *)

\* pd.to_datetime on the strings the API sends: an ISO-8601 string becomes
\* a timestamp (distinct spellings of one instant become the same value,
\* an explicit offset is kept), None becomes NaT.
to_datetime(ts) ==
    CASE ts = "2024-03-01T12:00:00.000Z"  -> "2024-03-01 12:00:00+00:00"
      [] ts = "2024-03-01T12:00:00Z"      -> "2024-03-01 12:00:00+00:00"
      [] ts = "2024-03-01T13:00:00.000Z"  -> "2024-03-01 13:00:00+00:00"
      [] ts = "2024-03-01T14:00:00+02:00" -> "2024-03-01 14:00:00+02:00"
      [] ts = "2024-03-01T12:00:00"       -> "2024-03-01 12:00:00"
      [] OTHER                            -> "NaT"

\* The subscript chains of lines 53-71, in evaluation order.
Accesses ==
    << <<"data", "city">>,
       <<"data", "country">>,
       <<"data", "current", "pollution", "ts">>,
       <<"data", "current", "pollution">>,
       <<"data", "current", "weather">>,
       <<"data", "current", "pollution", "aqius">>,
       <<"data", "current", "pollution", "aqicn">>,
       <<"data", "current", "pollution", "mainus">>,
       <<"data", "current", "weather", "tp">>,
       <<"data", "current", "weather", "hu">>,
       <<"data", "current", "weather", "ws">> >>

\* d[k1][k2]...: the key that raises KeyError, or "" when the chain resolves.
RECURSIVE Subscript(_, _)
Subscript(d, path) ==
    IF path = <<>> THEN ""
    ELSE IF Head(path) \in DOMAIN d
         THEN Subscript(d[Head(path)], Tail(path))
         ELSE Head(path)

\* The KeyError that leaves the try block: the first failing chain's key.
KeyErrorOf(d) ==
    LET failing == { i \in 1..Len(Accesses) : Subscript(d, Accesses[i]) # "" }
    IN  IF failing = {} THEN ""
        ELSE LET i == CHOOSE m \in failing : \A n \in failing : m <= n
             IN  Subscript(d, Accesses[i])

Registro(d) ==
    LET contaminacion == d["data"]["current"]["pollution"]
        clima         == d["data"]["current"]["weather"]
    IN  [ ciudad                 |-> d["data"]["city"],
          pais                   |-> d["data"]["country"],
          fecha_hora             |-> to_datetime(contaminacion["ts"]),
          aqi_us                 |-> contaminacion["aqius"],
          aqi_cn                 |-> contaminacion["aqicn"],
          contaminante_principal |-> contaminacion["mainus"],
          temperatura_c          |-> clima["tp"],
          humedad_pct            |-> clima["hu"],
          viento_mps             |-> clima["ws"] ]

FaltaLaClave(k) == "Error en transformacion: falta la clave " \o k

\* Variant without the try/except: the KeyError escapes.
transformar_datos_sin_try(data) ==
    IF data.t # "dict" THEN Raise("TypeError", <<>>)
    ELSE LET k == KeyErrorOf(data.v)
         IN  IF k = "" THEN Return(DF(<<Registro(data.v)>>), <<>>)
             ELSE Raise("KeyError", <<>>)

\* transformar_datos(data): a str argument cannot be subscripted with a str
\* (TypeError, not caught by `except KeyError`).
transformar_datos(data) ==
    IF data.t # "dict" THEN Raise("TypeError", <<>>)
    ELSE LET k == KeyErrorOf(data.v)
         IN  IF k = "" THEN Return(DF(<<Registro(data.v)>>), <<>>)
             ELSE Return(DF(<<>>), <<FaltaLaClave(k)>>)

----------------------------------------------------------------------------
(* transform.py : limpiar_y_validar *)

Clave(r) == <<r.fecha_hora, r.ciudad>>

\* Variant keep="last": a row is a duplicate when a later row has its key.
duplicated_last(rows) ==
    [i \in 1..Len(rows) |->
        \E j \in (i + 1)..Len(rows) : Clave(rows[j]) = Clave(rows[i])]

\* DataFrame.duplicated(subset, keep="first"): a row is a duplicate when an
\* earlier row has the same subset values.
duplicated(rows) ==
    [i \in 1..Len(rows) |-> \E j \in 1..(i - 1) : Clave(rows[j]) = Clave(rows[i])]

RECURSIVE Mask(_, _, _)
Mask(rows, drop, i) ==
    IF i > Len(rows) THEN <<>>
    ELSE IF drop[i] THEN Mask(rows, drop, i + 1)
         ELSE <<rows[i]>> \o Mask(rows, drop, i + 1)

drop_duplicates(rows) == Mask(rows, duplicated(rows), 1)

isnull_any(rows, col) == \E i \in 1..Len(rows) : rows[i][col] = Null

DatosIncompletos == "Datos incompletos detectados en AQI o temperatura"

\* Variant that checks the critical columns before dropping duplicates.
limpiar_y_validar_nulos_antes(d) ==
    IF d.t # "df" THEN Raise("AttributeError", <<>>)
    ELSE IF d.rows = <<>> THEN Return(d, <<>>)
    ELSE IF isnull_any(d.rows, "aqi_us") \/ isnull_any(d.rows, "temperatura_c")
         THEN Raise("ValueError", <<DatosIncompletos>>)
         ELSE Return(DF(drop_duplicates(d.rows)), <<>>)

limpiar_y_validar(d) ==
    IF d.t # "df" THEN Raise("AttributeError", <<>>)
    ELSE IF d.rows = <<>> THEN Return(d, <<>>)
    ELSE LET limpio == drop_duplicates(d.rows)
         IN  IF isnull_any(limpio, "aqi_us") \/ isnull_any(limpio, "temperatura_c")
             THEN Raise("ValueError", <<DatosIncompletos>>)
             ELSE Return(DF(limpio), <<>>)

----------------------------------------------------------------------------
(* The environment of one call *)

\* The database: accepts the insert, rejects it, or its URL is one
\* create_engine refuses.
DbStates      == {"up", "down", "badurl"}
\* The data directory: writable, present but rejecting writes, or absent and
\* impossible to create.
FsStates      == {"ok", "fail", "nodir"}
EngineStates  == {"ok", "missing", "fails"}   \* a parquet engine: works, not installed, write error
ApiResponses  == {"success", "fail", "error"} \* status=success, other status, request exception

Envs == [db : DbStates, fs : FsStates, pyarrow : EngineStates, fastparquet : EngineStates]

\* datetime.now().strftime("%Y%m%d_%H%M%S"): the clock truncated to seconds.
strftime(now) == "20240301_12000" \o ToString(now \div TicksPerSec)

WriteFile(fls, name, rows, now) ==
    [n \in (DOMAIN fls) \cup {name} |->
        IF n = name THEN [rows |-> rows, at |-> now] ELSE fls[n]]

----------------------------------------------------------------------------
(* load.py *)

DatosInsertados == "Datos insertados en la tabla"
ErrorSQL        == "Error al guardar en SQL"
DatosExportados == "Datos exportados"
ErrorExportar   == "Error al exportar"

\* Variant if_exists="replace": the table is rebuilt from the batch.
to_sql_replace(d, tbl) == d.rows

\* df.to_sql(tabla, engine, if_exists="append", index=False)
to_sql(d, tbl) == tbl \o d.rows

\* init_db(): create_engine(DB_URL) raises on a URL it cannot parse.
init_db(env) ==
    IF env.db = "badurl" THEN Raise("ArgumentError", <<>>) ELSE Return(PyNone, <<>>)

\* guardar_en_sql(df, tabla): effect on the table and the call's result.
\* init_db() is called before the try; inside it the insert is one
\* transaction, which adds all the rows or none.
guardar_en_sql(d, tabla, tbl, env) ==
    IF init_db(env).exc # "" THEN [table |-> tbl, r |-> init_db(env)]
    ELSE IF d.t = "df" /\ env.db = "up"
    THEN [table |-> to_sql(d, tbl), r |-> Return(PyNone, <<DatosInsertados>>)]
    ELSE [table |-> tbl,            r |-> Return(PyNone, <<ErrorSQL>>)]

\* pandas' engine="auto": the first engine that can be imported is used.
AutoEngine(env) ==
    IF env.pyarrow # "missing" THEN env.pyarrow
    ELSE IF env.fastparquet # "missing" THEN env.fastparquet
    ELSE "missing"

RutaCsv(nombre)     == nombre \o ".csv"
RutaParquet(nombre) == nombre \o ".parquet"

\* os.makedirs(path, exist_ok=True)
makedirs(env) ==
    IF env.fs = "nodir" THEN Raise("OSError", <<>>) ELSE Return(PyNone, <<>>)

\* exportar_csv_parquet(df, nombre): effect on the files and the result.
\* os.makedirs is called before the try.
exportar_csv_parquet(d, nombre, fls, env, now) ==
    IF makedirs(env).exc # "" THEN [files |-> fls, r |-> makedirs(env)]
    ELSE IF d.t # "df" \/ env.fs = "fail"
    THEN [files |-> fls, r |-> Return(PyNone, <<ErrorExportar>>)]
    ELSE LET conCsv == WriteFile(fls, RutaCsv(nombre), d.rows, now)
         IN  IF AutoEngine(env) = "ok"
             THEN [files |-> WriteFile(conCsv, RutaParquet(nombre), d.rows, now),
                   r     |-> Return(PyNone, <<DatosExportados>>)]
             ELSE [files |-> conCsv, r |-> Return(PyNone, <<ErrorExportar>>)]

----------------------------------------------------------------------------
(* transform.py : guardar_datos_procesados *)

ErrorPyarrow      == "Error con pyarrow. Intentando con fastparquet..."
DatosProcesados   == "Datos procesados guardados"

guardar_datos_procesados(d, prefijo, fls, env, now) ==
    LET nombre == prefijo \o "_" \o strftime(now)
    IN  IF makedirs(env).exc # "" THEN [files |-> fls, r |-> makedirs(env)]
        ELSE IF d.t # "df" THEN [files |-> fls, r |-> Raise("AttributeError", <<>>)]
        ELSE IF env.fs = "fail" THEN [files |-> fls, r |-> Raise("OSError", <<>>)]
        ELSE LET conCsv == WriteFile(fls, RutaCsv(nombre), d.rows, now)
                 conPq  == WriteFile(conCsv, RutaParquet(nombre), d.rows, now)
             IN  IF env.pyarrow = "ok"
                 THEN [files |-> conPq, r |-> Return(PyNone, <<DatosProcesados>>)]
                 ELSE IF env.fastparquet = "ok"
                 THEN [files |-> conPq,
                       r |-> Return(PyNone, <<ErrorPyarrow, DatosProcesados>>)]
                 ELSE [files |-> conCsv,
                       r |-> Raise(IF env.fastparquet = "missing"
                                   THEN "ImportError" ELSE "Exception",
                                   <<ErrorPyarrow>>)]

----------------------------------------------------------------------------------------------------------------------------------------------
(* config.py *)

ConfigDebug == <<"RAW_PATH:", "PROCESSED_PATH:", "DB_PATH:", "DB_URL:">>

\* Loading etl.config: it creates the data directories, outside any try, and
\* then prints the four paths.
import_config(env) ==
    IF makedirs(env).exc # "" THEN makedirs(env) ELSE Return(PyNone, ConfigDebug)

----------------------------------------------------------------------------
(* extract.py *)

ErrorDescarga   == "Error al descargar datos"
DatosGuardados  == "Datos guardados en"
NoDatosValidos  == "No se recibieron datos validos de la API."

\* The decoded response: a document with its status, or {} after a request
\* exception.
ApiDoc(resp) == IF resp = "error" THEN <<>> ELSE [status |-> resp]

\* fetch_air_quality_data()
fetch_air_quality_data(resp) ==
    IF resp = "error" THEN Return(PyDict(ApiDoc(resp)), <<ErrorDescarga>>)
    ELSE Return(PyDict(ApiDoc(resp)), <<>>)

RutaCruda(now) == "air_quality_" \o strftime(now) \o ".json"

\* save_raw_data(data): nothing is caught.
save_raw_data(data, fls, env, now) ==
    IF makedirs(env).exc # "" THEN [files |-> fls, r |-> makedirs(env)]
    ELSE IF env.fs = "fail" THEN [files |-> fls, r |-> Raise("OSError", <<>>)]
    ELSE [files |-> WriteFile(fls, RutaCruda(now), <<>>, now),
          r     |-> Return(PyStr(RutaCruda(now)), <<DatosGuardados>>)]

\* The script of lines 65-77, once the module is loaded.
extract_main(resp, fls, env, now) ==
    LET f    == fetch_air_quality_data(resp)
        data == f.val.v
    IN  IF DOMAIN data # {} /\ data["status"] = "success"
        THEN LET g == save_raw_data(f.val, fls, env, now)
             IN  [files |-> g.files,
                  r     |-> [val |-> PyNone, exc |-> g.r.exc, out |-> f.out \o g.r.out]]
        ELSE [files |-> fls, r |-> Return(PyNone, f.out \o <<NoDatosValidos>>)]

\* python -m etl.extract: line 11 loads etl.config, then the script runs.
run_extract(resp, fls, env, now) ==
    LET c == import_config(env)
        m == extract_main(resp, fls, env, now)
    IN  IF c.exc # "" THEN [files |-> fls, r |-> c]
        ELSE [files |-> m.files, r |-> [m.r EXCEPT !.out = c.out \o @]]

----------------------------------------------------------------------------
(* flow.py *)

PyTrue  == [t |-> "True", rows |-> <<>>]
PyFalse == [t |-> "False", rows |-> <<>>]

DataFrameVacio == "DataFrame vacio: no se cargaron datos."

\* Loading the module (python -m etl.flow).  Line 8 needs prefect.  Line 9
\* loads etl.extract, and with it etl.config, and then asks it for
\* obtener_datos_calidad_aire and guardar_datos_crudos, of which it defines
\* neither.  flujo_etl is never defined, let alone run.
import_flow(prefect, env) ==
    IF ~prefect THEN Raise("ModuleNotFoundError", <<>>)
    ELSE IF import_config(env).exc # "" THEN import_config(env)
    ELSE Raise("ImportError", import_config(env).out)

\* The task bodies, evaluated where the functions of etl.extract,
\* etl.transform and etl.load are in scope.

\* tarea_extraer(): its first line names obtener_datos_calidad_aire.
tarea_extraer == Raise("NameError", <<>>)

\* tarea_transformar(ruta_archivo): hands the path itself to transformar_datos.
tarea_transformar(ruta_archivo) ==
    IF ruta_archivo.t = "str" /\ ruta_archivo.v # ""
    THEN transformar_datos(ruta_archivo)
    ELSE Return(PyNone, <<>>)

\* tarea_cargar(df): effect on table and files, and the result.  An
\* exception of guardar_en_sql ends the task before the export, one of
\* exportar_csv_parquet after the insert.
tarea_cargar(d, tbl, fls, env, now) ==
    IF d.t = "df" /\ d.rows # <<>>
    THEN LET sql == guardar_en_sql(d, "calidad_aire", tbl, env)
             exp == exportar_csv_parquet(d, "calidad_aire", fls, env, now)
         IN  IF sql.r.exc # ""
             THEN [table |-> sql.table, files |-> fls,
                   r |-> Raise(sql.r.exc, sql.r.out)]
             ELSE IF exp.r.exc # ""
             THEN [table |-> sql.table, files |-> exp.files,
                   r |-> Raise(exp.r.exc, sql.r.out \o exp.r.out)]
             ELSE [table |-> sql.table, files |-> exp.files,
                   r |-> Return(PyTrue, sql.r.out \o exp.r.out)]
    ELSE [table |-> tbl, files |-> fls, r |-> Return(PyFalse, <<DataFrameVacio>>)]

----------
(* Inputs *)

TsValues == {"2024-03-01T12:00:00.000Z", "2024-03-01T12:00:00Z",
             "2024-03-01T13:00:00.000Z", Null}

FullPayload(ts, aqius, tp, hu) ==
    [ status |-> "success",
      data   |-> [ city    |-> "Mexico City",
                   country |-> "Mexico",
                   current |-> [ pollution |-> [ ts |-> ts, aqius |-> aqius,
                                                 aqicn |-> "20", mainus |-> "p2" ],
                                 weather   |-> [ tp |-> tp, hu |-> hu,
                                                 ws |-> "3.2" ] ] ] ]

PayloadKeys == {"data", "city", "country", "current", "pollution", "weather",
                "ts", "aqius", "aqicn", "mainus", "tp", "hu", "ws"}

\* The payload p with the keys K absent (a removed key takes its subtree).
Prune(p, K) ==
    LET cur == [ pollution |-> Restrict(p.data.current.pollution, K),
                 weather   |-> Restrict(p.data.current.weather, K) ]
        dat == [ city    |-> p.data.city,
                 country |-> p.data.country,
                 current |-> Restrict(cur, K) ]
    IN  Restrict([status |-> p.status, data |-> Restrict(dat, K)], K)

FullPayloads ==
    { FullPayload(ts, "55", "21", "40") : ts \in TsValues } \cup
    { FullPayload("2024-03-01T12:00:00.000Z", m[1], m[2], m[3]) :
        m \in { <<Null, "21", "40">>, <<"55", Null, "40">>, <<"55", "21", Null>> } }

Payloads ==
    { Prune(p, K) : p \in FullPayloads,
                    K \in { S \in SUBSET PayloadKeys : Cardinality(S) <= MaxMissing } }

\* The payloads the pipeline is run on: a reading, the same reading without
\* temperature and a response without the `current` node.
RunPayloads ==
    { FullPayload("2024-03-01T12:00:00.000Z", "55", "21", "40"),
      FullPayload("2024-03-01T12:00:00.000Z", "55", Null, "40"),
      Prune(FullPayload("2024-03-01T12:00:00.000Z", "55", "21", "40"), {"current"}) }

Fila(fecha, ciudad, aqi, temp, hum) ==
    [ ciudad |-> ciudad, pais |-> "Mexico", fecha_hora |-> fecha,
      aqi_us |-> aqi, aqi_cn |-> "20", contaminante_principal |-> "p2",
      temperatura_c |-> temp, humedad_pct |-> hum, viento_mps |-> "3.2" ]

Filas ==
    { Fila(f, c, m[1], m[2], m[3]) :
        f \in {"2024-03-01 12:00:00+00:00", "2024-03-01 13:00:00+00:00"},
        c \in {"Mexico City", "CDMX"},
        m \in { <<"55", "21", "40">>, <<"60", "21", "40">>, <<Null, "21", "40">>,
                <<"55", Null, "40">>, <<"55", "21", Null>> } }

SeqsUpTo(S, n) == UNION { [1..k -> S] : k \in 0..n }

Batches == { DF(rows) : rows \in SeqsUpTo(Filas, MaxLen) }

Healthy == [db |-> "up", fs |-> "ok", pyarrow |-> "ok", fastparquet |-> "ok"]

\* The environments the load task meets: all in order, or one of the
\* database and the output directory out of order.
RunEnvs ==
    { e \in Envs : /\ e.pyarrow = "ok" /\ e.fastparquet = "ok"
                   /\ (e.db = "up" \/ e.fs = "ok") }

\* The extraction and the loading of the modules depend on the file system
\* only.
ExtractEnvs ==
    { e \in Envs : e.db = "up" /\ e.pyarrow = "ok" /\ e.fastparquet = "ok" }

\* The arguments of tarea_transformar: None, or the path of a raw file.
RutaInputs == { NoArg, PyStr(RutaCruda(0)) }

\* guardar_en_sql depends on the database only.
SqlEnvs == { e \in Envs : e.fs = "ok" /\ e.pyarrow = "ok" /\ e.fastparquet = "ok" }

\* The export functions depend on the file system and the engines only.
ExportEnvs == { e \in Envs : e.db = "up" }

\* The rows of two consecutive hourly readings.
LoadFilas ==
    { Registro(FullPayload(ts, "55", "21", "40")) :
        ts \in {"2024-03-01T12:00:00.000Z", "2024-03-01T13:00:00.000Z"} }

\* The batches handed directly to the load functions, whose parameter is
\* documented as "DataFrame con datos limpios": those limpiar_y_validar
\* returns as they are.
LoadBatches ==
    { b \in { DF(rows) : rows \in SeqsUpTo(LoadFilas, MaxBatch) } :
        limpiar_y_validar(b) = Return(b, <<>>) }

----------------------------------------------------------------------------------------------------------------------------------------------
(* The programs and the functions, run one after another *)

Init ==
    /\ table = <<>>
    /\ files = <<>>
    /\ clock = 0
    /\ df = PyNone
    /\ arg = NoArg
    /\ last = NoCall

Tick ==
    /\ clock < MaxClock
    /\ clock' = clock + 1
    /\ UNCHANGED <<table, files, df, arg, last>>

\* python -m etl.extract
ExtractMain(resp, env) ==
    /\ LET e == run_extract(resp, files, env, clock)
       IN  /\ files' = e.files
           /\ last' = Called("etl.extract", e.r, env)
    /\ arg' = NoArg
    /\ UNCHANGED <<table, clock, df>>

\* python -m etl.flow
RunFlow(prefect, env) ==
    /\ last' = Called("etl.flow", import_flow(prefect, env), env)
    /\ arg' = NoArg
    /\ UNCHANGED <<table, files, clock, df>>

\* tarea_extraer()
CallTareaExtraer ==
    /\ last' = Called("tarea_extraer", tarea_extraer, NoEnv)
    /\ arg' = NoArg
    /\ UNCHANGED <<table, files, clock, df>>

\* df = tarea_transformar(ruta)
CallTareaTransformar(ruta) ==
    /\ LET r == tarea_transformar(ruta)
       IN  /\ df' = IF r.exc = "" THEN r.val ELSE df
           /\ last' = Called("tarea_transformar", r, NoEnv)
    /\ arg' = ruta
    /\ UNCHANGED <<table, files, clock>>

\* df = transformar_datos(data) on a decoded payload
CallTransformar(p) ==
    /\ LET r == transformar_datos(PyDict(p))
       IN  /\ df' = r.val
           /\ last' = Called("transformar_datos", r, NoEnv)
    /\ arg' = PyDict(p)
    /\ UNCHANGED <<table, files, clock>>

\* df = limpiar_y_validar(df)
CallLimpiar ==
    /\ LET r == limpiar_y_validar(df)
       IN  /\ df' = IF r.exc = "" THEN r.val ELSE df
           /\ last' = Called("limpiar_y_validar", r, NoEnv)
    /\ arg' = df
    /\ UNCHANGED <<table, files, clock>>

\* tarea_cargar(df)
CallCargar(env) ==
    /\ Len(table) + Len(df.rows) <= MaxRows
    /\ LET c == tarea_cargar(df, table, files, env, clock)
       IN  /\ table' = c.table
           /\ files' = c.files
           /\ last' = Called("tarea_cargar", c.r, env)
    /\ arg' = df
    /\ UNCHANGED <<clock, df>>

\* guardar_en_sql(b)
CallGuardarEnSql(b, env) ==
    /\ Len(table) + Len(b.rows) <= MaxRows
    /\ LET s == guardar_en_sql(b, "calidad_aire", table, env)
       IN  /\ table' = s.table
           /\ last' = Called("guardar_en_sql", s.r, env)
    /\ arg' = b
    /\ UNCHANGED <<files, clock, df>>

\* exportar_csv_parquet(b)
CallExportar(b, env) ==
    /\ LET e == exportar_csv_parquet(b, "air_quality_processed", files, env, clock)
       IN  /\ files' = e.files
           /\ last' = Called("exportar_csv_parquet", e.r, env)
    /\ arg' = b
    /\ UNCHANGED <<table, clock, df>>

\* guardar_datos_procesados(b)
CallGuardarProcesados(b, env) ==
    /\ LET g == guardar_datos_procesados(b, "calidad_aire", files, env, clock)
       IN  /\ files' = g.files
           /\ last' = Called("guardar_datos_procesados", g.r, env)
    /\ arg' = b
    /\ UNCHANGED <<table, clock, df>>

\* The pipeline: the two programs, and the stage functions called one by one.
Next ==
    \/ Tick
    \/ \E resp \in ApiResponses, env \in ExtractEnvs : ExtractMain(resp, env)
    \/ \E prefect \in BOOLEAN, env \in ExtractEnvs : RunFlow(prefect, env)
    \/ CallTareaExtraer
    \/ \E ruta \in RutaInputs : CallTareaTransformar(ruta)
    \/ \E p \in RunPayloads : CallTransformar(p)
    \/ CallLimpiar
    \/ \E env \in RunEnvs : CallCargar(env)
    \/ \E b \in LoadBatches, env \in SqlEnvs : CallGuardarEnSql(b, env)

Spec == Init /\ [][Next]_vars

\* The export functions, called on a held DataFrame in every environment.
InitExport ==
    /\ table = <<>>
    /\ files = <<>>
    /\ clock = 0
    /\ df \in LoadBatches
    /\ arg = NoArg
    /\ last = NoCall

NextExport ==
    \/ Tick
    \/ \E env \in ExportEnvs : CallExportar(df, env)
    \/ \E env \in ExportEnvs : CallGuardarProcesados(df, env)

SpecExport == InitExport /\ [][NextExport]_vars

\* limpiar_y_validar applied to every batch.
InitValidate ==
    /\ table = <<>>
    /\ files = <<>>
    /\ clock = 0
    /\ df \in Batches \cup {PyNone}
    /\ arg = NoArg
    /\ last = NoCall

NextValidate == CallLimpiar

SpecValidate == InitValidate /\ [][NextValidate]_vars

\* transformar_datos applied to every payload.
InitParse ==
    /\ table = <<>>
    /\ files = <<>>
    /\ clock = 0
    /\ df = PyNone
    /\ arg \in { PyDict(p) : p \in Payloads }
    /\ last = NoCall

NextParse == CallTransformar(arg.v)

SpecParse == InitParse /\ [][NextParse]_vars

----------
(* Properties *)

Printed(m) == \E i \in DOMAIN last.out : last.out[i] = m

IsPrefix(s, t) == Len(s) <= Len(t) /\ \A i \in 1..Len(s) : s[i] = t[i]

CriticalNull(r) == r.aqi_us = Null \/ r.temperatura_c = Null

\* C1: a pipeline run ends with its batch sunk, after parsing and validating
\* it (tarea_cargar's True), or skipped (False); it never ends by an exception.
C1_StagesInOrder ==
    last.op = "etl.flow" => (last.exc = "" /\ last.val \in {PyTrue, PyFalse})

\* C2: no row of the table has a null aqi_us or temperatura_c.
C2_NoCriticalNullStored ==
    \A i \in 1..Len(table) : ~CriticalNull(table[i])

\* C3: no two rows of the table share (fecha_hora, ciudad).
C3_UniqueKeys ==
    \A i, j \in 1..Len(table) : i < j => Clave(table[i]) # Clave(table[j])

\* A step that is a call of guardar_en_sql, directly or from tarea_cargar.
SqlStep ==
    /\ last'.op \in {"guardar_en_sql", "tarea_cargar"}
    /\ (last' # last \/ arg' # arg \/ table' # table)

\* C4: every step keeps the rows already in the table, in place and unchanged;
\* an insert that succeeds adds exactly the batch's rows, and one of an empty
\* batch leaves the table as it was.
C4_AppendOnly ==
    [][ /\ IsPrefix(table, table')
        /\ (SqlStep /\ (\E i \in DOMAIN last'.out : last'.out[i] = DatosInsertados))
              => Len(table') = Len(table) + Len(arg'.rows)
        /\ (SqlStep /\ arg'.rows = <<>>) => Len(table') = Len(table) ]_vars

C4_Witness ==
    /\ last.op = "guardar_en_sql"
    /\ Printed(DatosInsertados)
    /\ Len(arg.rows) = 1
    /\ Len(table) = 2

\* C5: a tarea_cargar whose insert or export failed does not end like a load
\* that succeeded (True) or one skipped for lack of data (False): the failure
\* leaves the task as an exception.
C5_SinkFailureDistinct ==
    (last.op = "tarea_cargar" /\ (Printed(ErrorSQL) \/ Printed(ErrorExportar)))
        => (last.exc # "" /\ last.val \notin {PyTrue, PyFalse})

\* The index of the first row of rows that has the key k.
FirstIndex(rows, k) ==
    CHOOSE i \in 1..Len(rows) :
        /\ Clave(rows[i]) = k
        /\ \A j \in 1..(i - 1) : Clave(rows[j]) # k

Claves(rows) == { Clave(rows[i]) : i \in 1..Len(rows) }

\* C6: the batch limpiar_y_validar returns holds, for every key of the input,
\* exactly one row, which is the first input row with that key, and its rows
\* are in the order of these first occurrences.
C6_DedupFirst ==
    (last.op = "limpiar_y_validar" /\ last.exc = "") =>
        LET in  == arg.rows
            res == last.val.rows
        IN  /\ Claves(res) = Claves(in)
            /\ \A i, j \in 1..Len(res) : i # j => Clave(res[i]) # Clave(res[j])
            /\ \A i \in 1..Len(res) : res[i] = in[FirstIndex(in, Clave(res[i]))]
            /\ \A i, j \in 1..Len(res) :
                  i < j => FirstIndex(in, Clave(res[i])) < FirstIndex(in, Clave(res[j]))

C6_Witness ==
    /\ last.op = "limpiar_y_validar"
    /\ last.exc = ""
    /\ Len(arg.rows) = 3
    /\ Len(last.val.rows) = 2
    /\ Clave(arg.rows[1]) = Clave(arg.rows[3])
    /\ arg.rows[1] # arg.rows[3]
    /\ last.val.rows = <<arg.rows[1], arg.rows[2]>>

\* The rows that survive deduplication: those no earlier row shares a key with.
Survives(rows, i) == \A j \in 1..(i - 1) : Clave(rows[j]) # Clave(rows[i])

\* C7: limpiar_y_validar raises exactly when a surviving row has a null
\* aqi_us or temperatura_c, and returns an empty batch as it is.
C7_FailsOnCriticalNull ==
    (last.op = "limpiar_y_validar" /\ arg.t = "df") =>
        /\ last.exc \in {"", "ValueError"}
        /\ (last.exc = "ValueError") <=>
              (\E i \in 1..Len(arg.rows) :
                   Survives(arg.rows, i) /\ CriticalNull(arg.rows[i]))
        /\ arg.rows = <<>> => (last.exc = "" /\ last.val = arg)

\* A batch accepted although a later duplicate lacks its temperature and a
\* surviving row lacks its humidity.
C7_Witness ==
    /\ last.op = "limpiar_y_validar"
    /\ last.exc = ""
    /\ \E i \in 1..Len(arg.rows) :
          ~Survives(arg.rows, i) /\ arg.rows[i].temperatura_c = Null
    /\ \E i \in 1..Len(last.val.rows) : last.val.rows[i].humedad_pct = Null

\* Every key of the fixed path is present.
AllPresent(d) ==
    /\ "data" \in DOMAIN d
    /\ {"city", "country", "current"} \subseteq DOMAIN d.data
    /\ {"pollution", "weather"} \subseteq DOMAIN d.data.current
    /\ {"ts", "aqius", "aqicn", "mainus"} \subseteq DOMAIN d.data.current.pollution
    /\ {"tp", "hu", "ws"} \subseteq DOMAIN d.data.current.weather

\* The keys that are absent from a node that is present.
AbsentKeys(d) ==
    IF "data" \notin DOMAIN d THEN {"data"}
    ELSE ({"city", "country", "current"} \ DOMAIN d.data) \cup
         (IF "current" \notin DOMAIN d.data THEN {}
          ELSE ({"pollution", "weather"} \ DOMAIN d.data.current) \cup
               (IF "pollution" \notin DOMAIN d.data.current THEN {}
                ELSE {"ts", "aqius", "aqicn", "mainus"}
                         \ DOMAIN d.data.current.pollution) \cup
               (IF "weather" \notin DOMAIN d.data.current THEN {}
                ELSE {"tp", "hu", "ws"} \ DOMAIN d.data.current.weather))

\* C8: transformar_datos never raises on a payload with absent keys; with
\* every key present it returns one row whose nine columns are the payload's
\* values, otherwise an empty batch and a message naming an absent key.
C8_RecordOrEmpty ==
    last.op = "transformar_datos" =>
        LET d == arg.v
        IN  /\ last.exc = ""
            /\ AllPresent(d) =>
                 /\ Len(last.val.rows) = 1
                 /\ last.out = <<>>
                 /\ LET r == last.val.rows[1]
                        c == d.data.current
                    IN  /\ DOMAIN r = {"ciudad", "pais", "fecha_hora", "aqi_us",
                                       "aqi_cn", "contaminante_principal",
                                       "temperatura_c", "humedad_pct", "viento_mps"}
                        /\ r.ciudad = d.data.city
                        /\ r.pais = d.data.country
                        /\ r.fecha_hora = to_datetime(c.pollution.ts)
                        /\ r.aqi_us = c.pollution.aqius
                        /\ r.aqi_cn = c.pollution.aqicn
                        /\ r.contaminante_principal = c.pollution.mainus
                        /\ r.temperatura_c = c.weather.tp
                        /\ r.humedad_pct = c.weather.hu
                        /\ r.viento_mps = c.weather.ws
            /\ ~AllPresent(d) =>
                 /\ last.val = DF(<<>>)
                 /\ \E k \in AbsentKeys(d) : last.out = <<FaltaLaClave(k)>>

\* The payload {"data": {"city": ..., "country": ...}}: `current` is reported.
C8_Witness ==
    /\ last.op = "transformar_datos"
    /\ "data" \in DOMAIN arg.v
    /\ DOMAIN arg.v.data = {"city", "country"}
    /\ last.val = DF(<<>>)
    /\ last.out = <<FaltaLaClave("current")>>

\* C9: a file written at least one second ago is not written again.
C9_NoOverwrite ==
    [][ \A n \in DOMAIN files :
            clock - files[n].at >= TicksPerSec =>
                (n \in DOMAIN files' /\ files'[n] = files[n]) ]_vars

\* A step that is a call of one of the export functions.
ExportStep ==
    /\ last'.op \in {"exportar_csv_parquet", "guardar_datos_procesados"}
    /\ (last' # last \/ files' # files)

Written(fls, n, now) == n \in DOMAIN fls /\ fls[n].at = now

\* C10: an export whose CSV can be written raises only when both engines
\* failed, and writes the CSV and the columnar file when either engine works.
C10_FallbackBeforeError ==
    [][ (ExportStep /\ last'.env.fs = "ok") =>
          LET nombre == IF last'.op = "exportar_csv_parquet"
                        THEN "air_quality_processed"
                        ELSE "calidad_aire_" \o strftime(clock)
              anyOk  == last'.env.pyarrow = "ok" \/ last'.env.fastparquet = "ok"
          IN  /\ last'.exc # "" => ~anyOk
              /\ anyOk => /\ last'.exc = ""
                          /\ Written(files', RutaCsv(nombre), clock)
                          /\ Written(files', RutaParquet(nombre), clock) ]_vars

====
